---------------------------- MODULE Spec2Model ----------------------------
(***************************************************************************)
(* tinyfly: a networked in-memory key-value store (src/tinyfly.js, lines   *)
(* 1-660) with its string hash (src/hash/index.js, WebAssembly text in     *)
(* src/unnamed/part_000).                                                  *)
(*                                                                         *)
(* Representation.                                                         *)
(*  - A byte is a number 0..255.  A JavaScript string of the model is a    *)
(*    sequence of ASCII codes 1..127 (0 too inside values), for which      *)
(*    charCodeAt, Buffer.from(..) and Buffer.toString() agree byte by byte.*)
(*  - A 32-bit word (a hash, an element of a Uint32Array) is represented  *)
(*    by its two's-complement reading in -2^31 .. 2^31-1, because the      *)
(*    integers of TLC are 32 bits wide.  The word 0xffffffff is    *)
(*    therefore -1, and storing the number -1 into a Uint32Array gives     *)
(*    that word.  Unsigned order and remainder are UGt and UMod.           *)
(*  - A JavaScript value is a record [t, b]: a string, null, undefined,    *)
(*    true or false.                                                       *)
(*  - An operation of a class is an operator from a state record to a      *)
(*    record [s, out, ex]: the state it leaves, the value it returns, and  *)
(*    whether it threw (then s is the state at the throw).                 *)
(***************************************************************************)
EXTENDS Integers, Sequences, FiniteSets, TLC

(***************************************************************************)
(* Sizes.  The arena of the program has 0xffffff bytes, 0xffff of them the *)
(* index region, and the cache has 500 cells; the model keeps the layout   *)
(* formulas and scales the three numbers down.                             *)
(***************************************************************************)
TOTAL_MEMORY_SIZE == 589
INDEX_SIZE == 512
CACHE_SIZE == 3

\* The requests a run of the model serves, the restarts and the snapshot
\* requests it makes.
MaxOps == 4
MaxRestarts == 1
MaxSnapshots == 2

\* F(e) with e evaluated once: the value of a local constant that is read
\* several times (a LET definition is evaluated again at every use)
Bind(e, F(_)) == CHOOSE y \in {F(x) : x \in {e}} : TRUE

Min(a, b) == IF a < b THEN a ELSE b
Max(a, b) == IF a > b THEN a ELSE b

---------------------------------------------------------------------------
(* JavaScript values *)
Str(x) == [t |-> "str", b |-> x]
JsNull == [t |-> "null", b |-> <<>>]
JsUndefined == [t |-> "undefined", b |-> <<>>]
JsTrue == [t |-> "true", b |-> <<>>]
JsFalse == [t |-> "false", b |-> <<>>]
JsBool(p) == IF p THEN JsTrue ELSE JsFalse

---------------------------------------------------------------------------
(* 32-bit words *)
EOC == -1

\* a > b as unsigned 32-bit numbers
UGt(a, b) == IF (a >= 0) = (b >= 0) THEN a > b ELSE a < 0

\* a % n as an unsigned 32-bit number, 0 < n <= 65536
UMod(a, n) ==
    IF a >= 0 THEN a % n
    ELSE ((a % n) + (((65536 % n) * (65536 % n)) % n)) % n

\* the word with high half hi and low half lo (each 0..65535)
Word(hi, lo) == IF hi >= 32768 THEN (hi - 65536) * 65536 + lo ELSE hi * 65536 + lo

\* ((h << 5) - h) + b in i32 arithmetic: (31 * h + b) mod 2^32
Step31(h, b) ==
    Bind((h % 65536) * 31 + b, LAMBDA lo2 :
        Word((((h \div 65536) % 65536) * 31 + (lo2 \div 65536)) % 65536, lo2 % 65536))

---------------------------------------------------------------------------
(* The hash: one WebAssembly instance, whose memory every hash function    *)
(* shares.  mem is the memory from address 0 up to the highest address     *)
(* written so far; everything above is zero.                               *)

\* buf[i] = str.charCodeAt(i) for i < str.length; nothing else is written
MemWrite(mem, str) ==
    [i \in 1..Max(Len(mem), Len(str)) |-> IF i <= Len(str) THEN str[i] % 256 ELSE mem[i]]

\* $hash: result = seed; until the byte at i is zero: result = result*31 + byte
RECURSIVE WasmLoop(_, _, _)
WasmLoop(mem, i, result) ==
    IF i > Len(mem) \/ mem[i] = 0 THEN result
    ELSE Bind(Step31(result, mem[i]), LAMBDA r : WasmLoop(mem, i + 1, r))

WasmHash(mem, seed) == WasmLoop(mem, 1, seed)

\* getHashFunc(seed)(str): write str into the memory, hash the memory, >>> 0
Hash(mem, seed, str) == Bind(MemWrite(mem, str), LAMBDA m : WasmHash(m, seed))

\* the state after a hash call with str
Hashed(s, str) == [s EXCEPT !.mem = MemWrite(@, str)]

---------------------------------------------------------------------------
(* Index.constructor: the layout of the index region *)
Length(n) == n \div 8
NodesLength(n) == (Length(n) \div 2) + (Length(n) \div 4)
\* a bitmap of one bit per byte of the region's length
BitmapLengthWide(n) == Length(n) \div 16

BitmapLength(n) == NodesLength(n) \div 32
BloomLength(n) == Length(n) \div 32
HtableLength(n) == Length(n) - NodesLength(n) - BitmapLength(n) - BloomLength(n)
\* start and length of the slice that is copied into the _nodes array
NodesStart(n) == BitmapLength(n) + BloomLength(n) + HtableLength(n)
NodesArrayLength(n) == n - NodesStart(n)

bitmap_length == BitmapLength(INDEX_SIZE)
bloom_length == BloomLength(INDEX_SIZE)
htable_length == HtableLength(INDEX_SIZE)
\* the slot ids the bitmap can hand out
Slots == 0 .. (8 * bitmap_length - 1)
\* The elements of _nodes the model keeps: no operation touches an element
\* above the last slot's triple.
NodeIdx == 0 .. (Min(NodesArrayLength(INDEX_SIZE), 3 * 8 * bitmap_length) - 1)
\* the heap is space.slice(INDEX_SIZE)
HeapLen == TOTAL_MEMORY_SIZE - INDEX_SIZE

SEEDS == <<1087, 1697, 2039, 2843, 3041>>
INDEX_SEED == 199
CACHE_SEED == 731

---------------------------------------------------------------------------
(* class BitMap: bitmap[(base << 3) | offset] is bit offset of byte base *)
BitMapClear == [i \in Slots |-> 0]

\* a fetch that scans from the last byte and the last bit down
RECURSIVE FetchDown(_, _, _)
FetchDown(bitmap, base, offset) ==
    IF base < 0 THEN [bitmap |-> bitmap, out |-> -1]
    ELSE IF offset < 0 THEN FetchDown(bitmap, base - 1, 7)
    ELSE IF bitmap[base * 8 + offset] = 0
    THEN [bitmap |-> [bitmap EXCEPT ![base * 8 + offset] = 1], out |-> base * 8 + offset]
    ELSE FetchDown(bitmap, base, offset - 1)

\* this._array.length of the bitmap
ArrayLength(bitmap) == Cardinality(DOMAIN bitmap) \div 8

BitMapFetchLast(bitmap) == FetchDown(bitmap, ArrayLength(bitmap) - 1, 7)

\* the two loops of fetch: for base = 0 .. length - 1, for offset = 0 .. 7
RECURSIVE FetchScan(_, _, _)
FetchScan(bitmap, base, offset) ==
    IF base >= ArrayLength(bitmap) THEN [bitmap |-> bitmap, out |-> -1]
    ELSE IF offset >= 8 THEN FetchScan(bitmap, base + 1, 0)
    ELSE IF bitmap[base * 8 + offset] = 0
    THEN [bitmap |-> [bitmap EXCEPT ![base * 8 + offset] = 1], out |-> base * 8 + offset]
    ELSE FetchScan(bitmap, base, offset + 1)

BitMapFetch(bitmap) == FetchScan(bitmap, 0, 0)

\* the asserts throw for an id outside the bitmap
BitMapFree(bitmap, id) ==
    IF id \notin DOMAIN bitmap
    THEN [bitmap |-> bitmap, ex |-> TRUE]
    ELSE [bitmap |-> [bitmap EXCEPT ![id] = 0], ex |-> FALSE]

---------------------------------------------------------------------------
(* class BloomFilter: bloom[(base << 3) | offset]; the bit of a hash is    *)
(* hfunc(key) % this._buffer.length, the length of the buffer in bytes     *)
BloomClear == [i \in 0 .. (8 * bloom_length - 1) |-> 0]

BloomIds(mem, key) == {UMod(Hash(mem, SEEDS[n], key), bloom_length) : n \in DOMAIN SEEDS}

BloomAdd(bloom, mem, key) ==
    Bind(BloomIds(mem, key), LAMBDA ids :
        [i \in DOMAIN bloom |-> IF i \in ids THEN 1 ELSE bloom[i]])

BloomRemove(bloom, mem, key) ==
    Bind(BloomIds(mem, key), LAMBDA ids :
        [i \in DOMAIN bloom |-> IF i \in ids THEN 0 ELSE bloom[i]])

BloomHas(bloom, mem, key) == \A i \in BloomIds(mem, key) : bloom[i] = 1

---------------------------------------------------------------------------
(* class Cache: two arrays of CACHE_SIZE JavaScript values *)
CacheClear == [i \in 0 .. (CACHE_SIZE - 1) |-> JsNull]

CacheIndex(mem, key) == UMod(Hash(mem, CACHE_SEED, key), CACHE_SIZE)

CacheHas(s, key) == s.keys[CacheIndex(s.mem, key)] = Str(key)

\* a cache set that hashes the key and stores nothing
CacheSetNothing(s, key, value) == [s EXCEPT !.mem = MemWrite(@, key)]

CacheSet(s, key, value) ==
    Bind(CacheIndex(s.mem, key), LAMBDA index :
        [s EXCEPT !.keys[index] = Str(key), !.values[index] = value,
                  !.mem = MemWrite(@, key)])

CacheGet(s, key) ==
    Bind(CacheIndex(s.mem, key), LAMBDA index :
        IF s.keys[index] = Str(key) THEN s.values[index] ELSE JsNull)

CacheRemove(s, key) ==
    Bind(CacheIndex(s.mem, key), LAMBDA index :
        IF s.keys[index] = Str(key)
        THEN [s EXCEPT !.keys[index] = JsNull, !.values[index] = JsNull,
                       !.mem = MemWrite(@, key)]
        ELSE Hashed(s, key))

---------------------------------------------------------------------------
(* class Storage: heap is this._buffer, a function from 0 .. HeapLen-1 to  *)
(* bytes; a record is a flag byte, a big-endian length and the payload     *)
FREE == 0
BUSY == 1

\* writeInt32BE's four bytes, for 0 <= v < 2^31
Int32BE(v) == <<(v \div 16777216) % 256, (v \div 65536) % 256, (v \div 256) % 256, v % 256>>

\* readUInt32BE(off), for off + 4 <= HeapLen and a first byte below 128
ReadUInt32BE(heap, off) ==
    heap[off] * 16777216 + heap[off + 1] * 65536 + heap[off + 2] * 256 + heap[off + 3]

\* Buffer.copy and the byte writes: bytes that would fall beyond the buffer
\* are not written
WriteBytes(heap, off, bytes) ==
    [i \in DOMAIN heap |->
        IF i >= off /\ i < off + Len(bytes) THEN bytes[i - off + 1] ELSE heap[i]]

\* Buffer.from(key + '\0' + value)
Data(key, value) == key \o <<0>> \o value

StorageClear ==
    WriteBytes([i \in 0 .. (HeapLen - 1) |-> 0], 0, <<FREE>> \o Int32BE(HeapLen))

\* offset += size + 5, kept within the integers: any offset >= HeapLen fails
\* the assert of the next iteration
NextOffset(offset, size) == IF size >= HeapLen THEN HeapLen ELSE offset + size + 5

\* Storage._save: the walk from startFromOffset.  The asserts and the range
\* checks of the Buffer reads and writes throw; there is no other way out of
\* the loop than the return of a fitting FREE block.
Thrown(heap) == [heap |-> heap, out |-> -1, ex |-> TRUE]

\* the block at offset is FREE and large enough: the writes of the branch
SaveInto(heap, data, offset, size) ==
    Bind(WriteBytes(heap, offset, <<BUSY>> \o Int32BE(Len(data)) \o data), LAMBDA h1 :
    Bind(offset + 5 + Len(data), LAMBDA at :
        IF size - Len(data) - 5 > 0
        THEN IF at >= HeapLen THEN Thrown(h1)
             ELSE IF at + 5 > HeapLen THEN Thrown(WriteBytes(h1, at, <<FREE>>))
             ELSE [heap |-> WriteBytes(h1, at, <<FREE>> \o Int32BE(size - Len(data) - 5)),
                   out |-> offset, ex |-> FALSE]
        ELSE [heap |-> h1, out |-> offset, ex |-> FALSE]))

RECURSIVE StorageSaveFrom(_, _, _)
StorageSaveFrom(heap, data, offset) ==
    IF offset < 0 \/ offset >= HeapLen THEN Thrown(heap)
    ELSE IF heap[offset] \notin {FREE, BUSY} THEN Thrown(heap)
    ELSE IF offset + 5 > HeapLen THEN Thrown(heap)
    ELSE Bind(ReadUInt32BE(heap, offset + 1), LAMBDA size :
             IF size <= 0 THEN Thrown(heap)
             ELSE IF heap[offset] = FREE /\ size >= Len(data)
             THEN SaveInto(heap, data, offset, size)
             ELSE Bind(NextOffset(offset, size), LAMBDA next :
                      StorageSaveFrom(heap, data, next)))

\* Storage.save
StorageSave(s, key, value) ==
    Bind(Data(key, value), LAMBDA data :
    Bind(StorageSaveFrom(s.heap, data, s.lastOffset), LAMBDA r1 :
    Bind(IF ~r1.ex /\ r1.out = -1 THEN StorageSaveFrom(r1.heap, data, 0) ELSE r1, LAMBDA r2 :
        [s |-> [s EXCEPT !.heap = r2.heap,
                         !.lastOffset = IF ~r2.ex /\ r2.out # -1 THEN r2.out ELSE @],
         out |-> r2.out, ex |-> r2.ex])))

\* slice(offset + 5, offset + 5 + size): the slice ends with the buffer
Payload(heap, offset, size) ==
    LET end == IF size >= HeapLen THEN HeapLen ELSE Min(offset + 5 + size, HeapLen)
    IN  [i \in 1 .. Max(end - (offset + 5), 0) |-> heap[offset + 5 + i - 1]]

\* String.split('\0'): the pieces between the zero bytes
RECURSIVE Split(_)
Split(bytes) ==
    IF \A i \in DOMAIN bytes : bytes[i] # 0 THEN <<bytes>>
    ELSE Bind(CHOOSE i \in DOMAIN bytes : bytes[i] = 0 /\ \A j \in 1 .. (i - 1) : bytes[j] # 0,
              LAMBDA z :
                  Bind(SubSeq(bytes, z + 1, Len(bytes)), LAMBDA rest :
                      <<SubSeq(bytes, 1, z - 1)>> \o Split(rest)))

\* the pieces of the record at offset: slice(..).toString().split('\0')
Pair(heap, offset) ==
    Bind(Payload(heap, offset, ReadUInt32BE(heap, offset + 1)), LAMBDA payload : Split(payload))

\* Storage.getKey
StorageGetKey(heap, offset) ==
    IF offset < 0 \/ offset >= HeapLen THEN [out |-> JsUndefined, ex |-> TRUE]
    ELSE IF heap[offset] \notin {FREE, BUSY} THEN [out |-> JsUndefined, ex |-> TRUE]
    ELSE IF heap[offset] = FREE THEN [out |-> JsNull, ex |-> FALSE]
    ELSE IF offset + 5 > HeapLen THEN [out |-> JsUndefined, ex |-> TRUE]
    ELSE IF ReadUInt32BE(heap, offset + 1) <= 0 THEN [out |-> JsUndefined, ex |-> TRUE]
    ELSE [out |-> Str(Pair(heap, offset)[1]), ex |-> FALSE]

\* Storage.getValue: no asserts; the reads throw outside the buffer
StorageGetValue(heap, offset) ==
    IF offset < 0 \/ offset >= HeapLen THEN [out |-> JsUndefined, ex |-> TRUE]
    ELSE IF heap[offset] = FREE THEN [out |-> JsNull, ex |-> FALSE]
    ELSE IF offset + 5 > HeapLen THEN [out |-> JsUndefined, ex |-> TRUE]
    ELSE Bind(Pair(heap, offset), LAMBDA pair :
             [out |-> IF Len(pair) >= 2 THEN Str(pair[2]) ELSE JsUndefined, ex |-> FALSE])

\* a delete that answers true and leaves the flag byte as it is
StorageDeleteKeepsFlag(s, offset) == [s |-> s, out |-> TRUE, ex |-> FALSE]

\* Storage.delete
StorageDelete(s, offset) ==
    IF offset < 0 \/ offset >= HeapLen THEN [s |-> s, out |-> FALSE, ex |-> TRUE]
    ELSE IF s.heap[offset] = FREE THEN [s |-> s, out |-> FALSE, ex |-> FALSE]
    ELSE [s |-> [s EXCEPT !.heap[offset] = FREE, !.lastOffset = offset],
          out |-> TRUE, ex |-> FALSE]

\* the check closure of the facade: this._storage.getKey(id) === key
Check(heap, id, key) ==
    Bind(StorageGetKey(heap, id), LAMBDA k : [ok |-> k.out = Str(key), ex |-> k.ex])

---------------------------------------------------------------------------
(* class Index: _table and _nodes are Uint32Arrays built from a slice of   *)
(* the arena, that is, copies of its bytes: they live beside the arena.    *)
(* _bitmap and _bloom are slices, that is, views of the arena.             *)
getNodeBlockOffset(index) == index + 2 * index

\* an element store of a typed array: an index outside the array is ignored
NodeWrite(nodes, i, v) == IF i \in DOMAIN nodes THEN [nodes EXCEPT ![i] = v] ELSE nodes

IndexClear(s) ==
    [s EXCEPT !.bitmap = BitMapClear, !.bloom = BloomClear,
              !.table = [i \in 0 .. (htable_length - 1) |-> EOC]]

\* the triple of the node in slot curr_offset
Node(s, curr_offset) ==
    Bind(getNodeBlockOffset(curr_offset), LAMBDA addr :
        [hash |-> s.nodes[addr], id |-> s.nodes[addr + 1], next |-> s.nodes[addr + 2]])

\* hash === curr_hash && check(curr_id): check is called for an equal hash only
Match(s, key, hash, node) ==
    IF hash = node.hash THEN Check(s.heap, node.id, key) ELSE [ok |-> FALSE, ex |-> FALSE]

\* The loop of Index.get.  The two asserts come before the test for EOC, and
\* EOC is not below the table's length.  n counts the nodes visited: a walk
\* longer than the number of slots is in a cycle and never returns, which is
\* reported like a throw (the caller gets no value).
RECURSIVE IndexGetWalk(_, _, _, _, _)
IndexGetWalk(s, key, hash, curr_offset, n) ==
    IF n > Cardinality(Slots) THEN [out |-> -1, ex |-> TRUE]
    ELSE IF curr_offset < 0 \/ curr_offset >= htable_length THEN [out |-> -1, ex |-> TRUE]
    ELSE Bind(Node(s, curr_offset), LAMBDA curr :
         Bind(Match(s, key, hash, curr), LAMBDA m :
             IF m.ex THEN [out |-> -1, ex |-> TRUE]
             ELSE IF m.ok THEN [out |-> curr.id, ex |-> FALSE]
             ELSE IF UGt(hash, curr.hash) THEN [out |-> -1, ex |-> FALSE]
             ELSE IndexGetWalk(s, key, hash, curr.next, n + 1)))

\* Index.get
IndexGet(s, key) ==
    IF ~BloomHas(s.bloom, s.mem, key)
    THEN [s |-> Hashed(s, key), out |-> -1, ex |-> FALSE]
    ELSE Bind(Hash(s.mem, INDEX_SEED, key), LAMBDA hash :
         Bind(IndexGetWalk(s, key, hash, s.table[UMod(hash, htable_length)], 0), LAMBDA r :
             [s |-> Hashed(s, key), out |-> r.out, ex |-> r.ex]))

\* Index.has
IndexHas(s, key) ==
    IF ~BloomHas(s.bloom, s.mem, key)
    THEN [s |-> Hashed(s, key), out |-> FALSE, ex |-> FALSE]
    ELSE Bind(IndexGet(s, key), LAMBDA r : [s |-> r.s, out |-> r.out # -1, ex |-> r.ex])

\* The body the two inserting branches of Index.set share: fetch a slot,
\* write the triple (hash, id, EOC), link it from the bucket head or from the
\* predecessor, add the key to the bloom filter.  With fetch() = -1 the
\* triple goes to the elements -3, -2, -1, which no typed array has, and the
\* link stores -1, the word EOC.
IndexInsert(s, key, hash, id, pred_offset) ==
    Bind(BitMapFetch(s.bitmap), LAMBDA f :
    Bind(getNodeBlockOffset(f.out), LAMBDA addr :
    Bind(NodeWrite(NodeWrite(NodeWrite(s.nodes, addr, hash), addr + 1, id), addr + 2, EOC),
         LAMBDA n1 :
        [s EXCEPT !.bitmap = f.bitmap,
                  !.nodes = IF pred_offset = EOC THEN n1
                            ELSE NodeWrite(n1, getNodeBlockOffset(pred_offset) + 2, f.out),
                  !.table = IF pred_offset = EOC
                            THEN [@ EXCEPT ![UMod(hash, htable_length)] = f.out] ELSE @,
                  !.bloom = BloomAdd(@, s.mem, key)])))

\* the loop of Index.set
RECURSIVE IndexSetWalk(_, _, _, _, _, _, _)
IndexSetWalk(s, id, key, hash, pred_offset, curr_offset, n) ==
    IF n > Cardinality(Slots) THEN [s |-> s, out |-> FALSE, ex |-> TRUE]
    ELSE IF curr_offset = EOC
    THEN [s |-> IndexInsert(s, key, hash, id, pred_offset), out |-> TRUE, ex |-> FALSE]
    ELSE Bind(Node(s, curr_offset), LAMBDA curr :
         Bind(Match(s, key, hash, curr), LAMBDA m :
             IF m.ex THEN [s |-> s, out |-> FALSE, ex |-> TRUE]
             ELSE IF m.ok THEN [s |-> s, out |-> FALSE, ex |-> FALSE]
             ELSE IF UGt(hash, curr.hash)
             THEN [s |-> IndexInsert(s, key, hash, id, pred_offset), out |-> TRUE, ex |-> FALSE]
             ELSE IndexSetWalk(s, id, key, hash, curr_offset, curr.next, n + 1)))

\* Index.set
IndexSet(s, id, key) ==
    IF id < 0 THEN [s |-> s, out |-> FALSE, ex |-> TRUE]
    ELSE Bind(Hash(s.mem, INDEX_SEED, key), LAMBDA hash :
         Bind(IndexSetWalk(s, id, key, hash, EOC, s.table[UMod(hash, htable_length)], 0),
              LAMBDA r : [s |-> Hashed(r.s, key), out |-> r.out, ex |-> r.ex]))

\* the splice of Index.delete: unlink, free the slot, remove from the bloom
IndexUnlink(s, key, hash, pred_offset, curr_offset, curr_next) ==
    Bind([s EXCEPT !.table = IF pred_offset = EOC
                             THEN [@ EXCEPT ![UMod(hash, htable_length)] = curr_next]
                             ELSE @,
                   !.nodes = IF pred_offset = EOC THEN @
                             ELSE NodeWrite(@, getNodeBlockOffset(pred_offset) + 2, curr_next)],
         LAMBDA linked :
    Bind(BitMapFree(s.bitmap, curr_offset), LAMBDA f :
        IF f.ex THEN [s |-> linked, ex |-> TRUE]
        ELSE [s |-> [linked EXCEPT !.bitmap = f.bitmap,
                                   !.bloom = BloomRemove(@, s.mem, key)],
              ex |-> FALSE]))

\* the loop of Index.delete
RECURSIVE IndexDeleteWalk(_, _, _, _, _, _)
IndexDeleteWalk(s, key, hash, pred_offset, curr_offset, n) ==
    IF n > Cardinality(Slots) THEN [s |-> s, out |-> -1, ex |-> TRUE]
    ELSE IF curr_offset = EOC THEN [s |-> s, out |-> -1, ex |-> FALSE]
    ELSE Bind(Node(s, curr_offset), LAMBDA curr :
         Bind(Match(s, key, hash, curr), LAMBDA m :
             IF m.ex THEN [s |-> s, out |-> -1, ex |-> TRUE]
             ELSE IF m.ok
             THEN Bind(IndexUnlink(s, key, hash, pred_offset, curr_offset, curr.next),
                       LAMBDA u : [s |-> u.s, out |-> curr.id, ex |-> u.ex])
             ELSE IF UGt(hash, curr.hash) THEN [s |-> s, out |-> -1, ex |-> FALSE]
             ELSE IndexDeleteWalk(s, key, hash, curr_offset, curr.next, n + 1)))

\* Index.delete
IndexDelete(s, key) ==
    IF ~BloomHas(s.bloom, s.mem, key)
    THEN [s |-> Hashed(s, key), out |-> -1, ex |-> FALSE]
    ELSE Bind(Hash(s.mem, INDEX_SEED, key), LAMBDA hash :
         Bind(IndexDeleteWalk(s, key, hash, EOC, s.table[UMod(hash, htable_length)], 0),
              LAMBDA r : [s |-> Hashed(r.s, key), out |-> r.out, ex |-> r.ex]))

---------------------------------------------------------------------------
(* class NoSql: the facade.  assert(key) throws for the empty key.         *)
NoSqlHas(s, key) ==
    IF key = <<>> THEN [s |-> s, out |-> JsFalse, ex |-> TRUE]
    ELSE IF CacheHas(s, key) THEN [s |-> Hashed(s, key), out |-> JsTrue, ex |-> FALSE]
    ELSE Bind(IndexHas(s, key), LAMBDA r : [s |-> r.s, out |-> JsBool(r.out), ex |-> r.ex])

\* the part of NoSql.set after the save
NoSqlSetIndex(sv, key) ==
    IF sv.ex THEN [s |-> sv.s, out |-> JsFalse, ex |-> TRUE]
    ELSE IF sv.out = -1 THEN [s |-> sv.s, out |-> JsFalse, ex |-> FALSE]
    ELSE Bind(IndexSet(sv.s, sv.out, key), LAMBDA ix :
             [s |-> ix.s, out |-> JsBool(ix.out), ex |-> ix.ex])

NoSqlSet(s, key, value) ==
    IF key = <<>> THEN [s |-> s, out |-> JsFalse, ex |-> TRUE]
    ELSE Bind(CacheSet(s, key, Str(value)), LAMBDA c :
         Bind(StorageSave(c, key, value), LAMBDA sv : NoSqlSetIndex(sv, key)))

NoSqlGet(s, key) ==
    IF key = <<>> THEN [s |-> s, out |-> JsUndefined, ex |-> TRUE]
    ELSE IF CacheHas(s, key) THEN [s |-> Hashed(s, key), out |-> CacheGet(s, key), ex |-> FALSE]
    ELSE Bind(IndexGet(s, key), LAMBDA r :
             IF r.ex THEN [s |-> r.s, out |-> JsUndefined, ex |-> TRUE]
             ELSE IF r.out = -1 THEN [s |-> r.s, out |-> JsUndefined, ex |-> FALSE]
             ELSE Bind(StorageGetValue(r.s.heap, r.out), LAMBDA v :
                      [s |-> r.s, out |-> v.out, ex |-> v.ex]))

NoSqlDelete(s, key) ==
    IF key = <<>> THEN [s |-> s, out |-> JsFalse, ex |-> TRUE]
    ELSE Bind(CacheRemove(s, key), LAMBDA c :
         Bind(IndexDelete(c, key), LAMBDA r :
             IF r.ex THEN [s |-> r.s, out |-> JsFalse, ex |-> TRUE]
             ELSE IF r.out = -1 THEN [s |-> r.s, out |-> JsFalse, ex |-> FALSE]
             ELSE Bind(StorageDelete(r.s, r.out), LAMBDA d :
                      [s |-> d.s, out |-> JsBool(d.out), ex |-> d.ex])))

---------------------------------------------------------------------------
(* The requests of a run *)
\* "a", "n", "af": "a" and "n" fall into one bucket, "a" and "af" into one
\* cache cell and onto one bloom bit
Keys == {<<97>>, <<110>>, <<97, 102>>}
Values == {<<>>, <<120>>, <<121, 0, 122>>}               \* "", "x", "y\0z"
Paths == {"/tmp/s.bin"}

\* the keys of the runs around snapshots and restarts
SnapKeys == {<<97>>, <<110>>}
SnapValues == {<<120>>}

\* the keys "a", "b", .. "i" of the run that fills the store (nine keys for
\* eight slots, each in a bucket of its own), and its short and long body
FillKeys == <<<<97>>, <<98>>, <<99>>, <<100>>, <<101>>, <<102>>, <<103>>, <<104>>, <<105>>>>
FillValues == {<<>>, <<120, 0, 120, 120>>}                \* "", "x\0xx"
MaxDrain == 3

\* the keys and bodies of the runs around the handler's asserts and
\* defaults: "a", "n" and the empty key; "" and "x"
ServeKeys == {<<97>>, <<110>>, <<>>}
ServeValues == {<<>>, <<120>>}

AllKeys == Keys \cup SnapKeys \cup ServeKeys \cup {FillKeys[i] : i \in 1 .. Len(FillKeys)}

VARIABLES
    bitmap, bloom, heap,     \* the arena: the slices Index and Storage view
    table, nodes,            \* Index._table, Index._nodes
    lastOffset,              \* Storage._lastOffset
    keys, values,            \* Cache._keys, Cache._values
    mem,                     \* the memory of the WebAssembly instance
    files,                   \* the file system: the bytes of each snapshot file
    pending,                 \* the snapshot file operations in flight
    crashed,                 \* the process has died of an uncaught exception
    res,                     \* the last request served and what it answered
    live,                    \* history: the value each key was last set to
    saved,                   \* history: what was live when each file was written
    script,                  \* history: where a scripted run stands
    nops, nrestarts, nsnaps  \* the requests, restarts and snapshots so far

arena == <<bitmap, bloom, heap>>
process == <<table, nodes, lastOffset, keys, values, mem>>
counters == <<nops, nrestarts, nsnaps>>
history == <<live, saved, script>>
vars == <<arena, process, files, pending, crashed, res, history, counters>>

\* the state the operators of the classes work on
Cur == [bitmap |-> bitmap, bloom |-> bloom, heap |-> heap, table |-> table,
        nodes |-> nodes, lastOffset |-> lastOffset, keys |-> keys,
        values |-> values, mem |-> mem]

Install(s) ==
    /\ bitmap' = s.bitmap /\ bloom' = s.bloom /\ heap' = s.heap
    /\ table' = s.table /\ nodes' = s.nodes /\ lastOffset' = s.lastOffset
    /\ keys' = s.keys /\ values' = s.values /\ mem' = s.mem

\* the bootstrap: Buffer.alloc, new Index(..).clear(), new Storage(..).clear(),
\* new Cache(..).clear(), one WebAssembly instance
Boot ==
    [bitmap |-> BitMapClear, bloom |-> BloomClear, heap |-> StorageClear,
     table |-> [i \in 0 .. (htable_length - 1) |-> EOC],
     nodes |-> [i \in NodeIdx |-> 0], lastOffset |-> 0,
     keys |-> CacheClear, values |-> CacheClear, mem |-> <<>>]

\* the bytes a snapshot holds: the index region's bitmap and bloom bytes and
\* the heap (the rest of the index region is never written and stays zero)
Image(s) == [bitmap |-> s.bitmap, bloom |-> s.bloom, heap |-> s.heap]
NoImage == [bitmap |-> <<>>, bloom |-> <<>>, heap |-> <<>>]

NoLive == [k \in AllKeys |-> JsUndefined]
Call(f, r) == [f |-> f, out |-> r.out, ex |-> r.ex]
NoRes == [plugin |-> "", method |-> "", key |-> <<>>, body |-> <<>>, code |-> 0,
          reply |-> JsUndefined, calls |-> <<>>]

Init ==
    /\ bitmap = Boot.bitmap /\ bloom = Boot.bloom /\ heap = Boot.heap
    /\ table = Boot.table /\ nodes = Boot.nodes /\ lastOffset = Boot.lastOffset
    /\ keys = Boot.keys /\ values = Boot.values /\ mem = Boot.mem
    /\ files = [p \in Paths |-> NoImage]
    /\ pending = {}
    /\ crashed = FALSE
    /\ res = NoRes
    /\ live = NoLive
    /\ saved = [p \in Paths |-> NoLive]
    /\ script = [phase |-> "fill", posts |-> 0, sets_ok |-> TRUE, deleted |-> {},
                 answers |-> <<>>]
    /\ nops = 0 /\ nrestarts = 0 /\ nsnaps = 0

---------------------------------------------------------------------------
(* RestServer._handler, plugin 'nosql': what each method calls and answers. *)
(* A throw inside the 'data' callback is an uncaught exception: the process *)
(* dies and the request gets no response (code 0).                          *)
Answer(s, ex, code, reply, calls) ==
    [s |-> s, ex |-> ex, code |-> IF ex THEN 0 ELSE code,
     reply |-> IF ex THEN JsUndefined ELSE reply, calls |-> calls]

HandleHead(s, param) ==
    Bind(NoSqlHas(s, param), LAMBDA h :
        Answer(h.s, h.ex, IF h.out = JsTrue THEN 200 ELSE 404, JsUndefined, <<Call("has", h)>>))

HandleGet(s, param) ==
    Bind(NoSqlHas(s, param), LAMBDA h :
        IF h.ex \/ h.out # JsTrue
        THEN Answer(h.s, h.ex, 404, JsUndefined, <<Call("has", h)>>)
        ELSE Bind(NoSqlGet(h.s, param), LAMBDA g :
                 Answer(g.s, g.ex, 200, g.out, <<Call("has", h), Call("get", g)>>)))

HandlePost(s, param, body) ==
    Bind(NoSqlSet(s, param, body), LAMBDA r :
        Answer(r.s, r.ex, IF r.out = JsTrue THEN 200 ELSE 500, JsUndefined, <<Call("set", r)>>))

HandlePut(s, param, body) ==
    Bind(NoSqlHas(s, param), LAMBDA h :
        IF h.ex THEN Answer(h.s, TRUE, 0, JsUndefined, <<Call("has", h)>>)
        ELSE IF h.out # JsTrue
        THEN Bind(NoSqlSet(h.s, param, body), LAMBDA r :
                 Answer(r.s, r.ex, IF r.out = JsTrue THEN 200 ELSE 500, JsUndefined,
                        <<Call("has", h), Call("set", r)>>))
        ELSE Bind(NoSqlDelete(h.s, param), LAMBDA d :
                 IF d.ex \/ d.out # JsTrue
                 THEN Answer(d.s, d.ex, 500, JsUndefined, <<Call("has", h), Call("delete", d)>>)
                 ELSE Bind(NoSqlSet(d.s, param, body), LAMBDA r :
                          Answer(r.s, r.ex, IF r.out = JsTrue THEN 200 ELSE 500, JsUndefined,
                                 <<Call("has", h), Call("delete", d), Call("set", r)>>))))

HandleDelete(s, param) ==
    Bind(NoSqlDelete(s, param), LAMBDA r :
        Answer(r.s, r.ex, IF r.out = JsTrue THEN 200 ELSE 404, JsUndefined, <<Call("delete", r)>>))

\* history: a key is live with value v after a set(key, v) that returned
\* true, until the next set or delete of the key
RECURSIVE LiveAfter(_, _, _, _)
LiveAfter(l, calls, key, body) ==
    IF calls = <<>> THEN l
    ELSE LET c == Head(calls)
             l2 == IF c.f = "set" /\ ~c.ex /\ c.out = JsTrue THEN [l EXCEPT ![key] = Str(body)]
                   ELSE IF c.f \in {"set", "delete"} THEN [l EXCEPT ![key] = JsUndefined]
                   ELSE l
         IN  LiveAfter(l2, Tail(calls), key, body)

Serve(method, param, body, a) ==
    /\ Install(a.s)
    /\ crashed' = a.ex
    /\ res' = [plugin |-> "nosql", method |-> method, key |-> param, body |-> body, code |-> a.code,
               reply |-> a.reply, calls |-> a.calls]
    /\ live' = LiveAfter(live, a.calls, param, body)
    /\ nops' = nops + 1
    /\ UNCHANGED <<files, pending, saved, nrestarts, nsnaps>>

\* history: the keys the store holds, each with its value: the key was set,
\* not deleted since, and has and get find it
Stored ==
    [k \in AllKeys |->
        IF /\ live[k] # JsUndefined
           /\ ~NoSqlHas(Cur, k).ex /\ NoSqlHas(Cur, k).out = JsTrue
           /\ ~NoSqlGet(Cur, k).ex /\ NoSqlGet(Cur, k).out = live[k]
        THEN live[k] ELSE JsUndefined]

\* the server is up and the run may serve another request
Ready == ~crashed /\ nops < MaxOps /\ UNCHANGED script

Head_(param) == Ready /\ \E a \in {HandleHead(Cur, param)} : Serve("HEAD", param, <<>>, a)
Get(param) == Ready /\ \E a \in {HandleGet(Cur, param)} : Serve("GET", param, <<>>, a)
Put(param, body) == Ready /\ \E a \in {HandlePut(Cur, param, body)} : Serve("PUT", param, body, a)
Post(param, body) == Ready /\ \E a \in {HandlePost(Cur, param, body)} : Serve("POST", param, body, a)
Delete(param) == Ready /\ \E a \in {HandleDelete(Cur, param)} : Serve("DELETE", param, <<>>, a)

---------------------------------------------------------------------------
(* Plugin 'snapshot' and class Snapshot.  fs.writeFile and fs.readFile run *)
(* beside the handler: the request starts the operation, the file system   *)
(* does it, and the promise's callback answers.                            *)
Backup(path) ==
    /\ ~crashed /\ nsnaps < MaxSnapshots
    /\ pending' = pending \cup {[op |-> "backup", path |-> path, stage |-> "started",
                                 space |-> NoImage, live |-> NoLive, err |-> FALSE]}
    /\ nsnaps' = nsnaps + 1
    /\ UNCHANGED <<arena, process, files, crashed, res, history, nops, nrestarts>>

\* a handler that answers 200 whatever the promise did
SnapshotCodeAlways200(err) == 200

\* .then(_ => done(200)) and .catch(ex => done(500, ex)): the code and the
\* body (the text of the error) of the response
SnapshotCode(err) == IF err THEN 500 ELSE 200
ErrorText == <<69, 114, 114, 111, 114>>                              \* "Error"
SnapshotBody(err) == IF err THEN Str(ErrorText) ELSE JsUndefined

\* fs.writeFile(fileName, this._space): the arena's bytes go to the file, or
\* the write fails and the file stays as it was
BackupWrite ==
    /\ ~crashed
    /\ \E io \in pending, err \in BOOLEAN :
        /\ io.op = "backup" /\ io.stage = "started"
        /\ files' = IF err THEN files ELSE [files EXCEPT ![io.path] = Image(Cur)]
        /\ saved' = IF err THEN saved ELSE [saved EXCEPT ![io.path] = Stored]
        /\ pending' = (pending \ {io}) \cup {[io EXCEPT !.stage = "done", !.err = err]}
    /\ UNCHANGED <<arena, process, crashed, res, live, script, counters>>

\* .then(_ => done(200)).catch(ex => done(500, ex))
BackupDone ==
    /\ ~crashed
    /\ \E io \in pending :
        /\ io.op = "backup" /\ io.stage = "done"
        /\ pending' = pending \ {io}
        /\ res' = [plugin |-> "snapshot", method |-> "BACKUP", key |-> <<>>, body |-> <<>>,
                   code |-> SnapshotCode(io.err), reply |-> SnapshotBody(io.err), calls |-> <<>>]
    /\ UNCHANGED <<arena, process, files, crashed, history, counters>>

Restore(path) ==
    /\ ~crashed /\ nsnaps < MaxSnapshots
    /\ pending' = pending \cup {[op |-> "restore", path |-> path, stage |-> "started",
                                 space |-> NoImage, live |-> NoLive, err |-> FALSE]}
    /\ nsnaps' = nsnaps + 1
    /\ UNCHANGED <<arena, process, files, crashed, res, history, nops, nrestarts>>

\* fs.readFile(fileName): the file's bytes, or the error of a missing file
RestoreRead ==
    /\ ~crashed
    /\ \E io \in pending :
        /\ io.op = "restore" /\ io.stage = "started"
        /\ pending' = (pending \ {io}) \cup
                      {[io EXCEPT !.stage = "done", !.space = files[io.path],
                                  !.live = saved[io.path],
                                  !.err = (files[io.path] = NoImage)]}
    /\ UNCHANGED <<arena, process, files, crashed, res, history, counters>>

\* a copy that stops after the index region's bytes
CopyIndexRegion(space, s) == [s EXCEPT !.bitmap = space.bitmap, !.bloom = space.bloom]

\* space.copy(this._space): every byte of the file goes into the arena, in
\* one synchronous call
Copy(space, s) ==
    [s EXCEPT !.bitmap = space.bitmap, !.bloom = space.bloom, !.heap = space.heap]

\* the callback of readFile: reject(err), or resolve(space.copy(this._space));
\* then done(200) or done(500, ex).  The copy writes the arena and nothing
\* else: the table, the nodes, the cache and the save cursor stay.
RestoreDone ==
    /\ ~crashed
    /\ \E io \in pending :
        /\ io.op = "restore" /\ io.stage = "done"
        /\ pending' = pending \ {io}
        /\ IF io.err
           THEN UNCHANGED <<arena, live>>
           ELSE /\ \E c \in {Copy(io.space, Cur)} :
                       bitmap' = c.bitmap /\ bloom' = c.bloom /\ heap' = c.heap
                /\ live' = io.live
        /\ res' = [plugin |-> "snapshot", method |-> "RESTORE", key |-> <<>>, body |-> <<>>,
                   code |-> SnapshotCode(io.err), reply |-> SnapshotBody(io.err), calls |-> <<>>]
    /\ UNCHANGED <<process, files, crashed, saved, script, counters>>

\* The process is started again (after a crash or not): everything in memory
\* is new, the files stay.
Restart ==
    /\ nrestarts < MaxRestarts
    /\ Install(Boot)
    /\ pending' = {}
    /\ crashed' = FALSE
    /\ res' = NoRes
    /\ live' = NoLive
    /\ nrestarts' = nrestarts + 1
    /\ UNCHANGED <<files, saved, script, nops, nsnaps>>

\* the requests to the 'nosql' plugin
Next ==
    \/ \E k \in Keys : Head_(k)
    \/ \E k \in Keys : Get(k)
    \/ \E k \in Keys, v \in Values : Put(k, v)
    \/ \E k \in Keys, v \in Values : Post(k, v)
    \/ \E k \in Keys : Delete(k)

Spec == Init /\ [][Next]_vars

\* snapshots and restarts, around requests for two keys
NextSnap ==
    \/ \E k \in SnapKeys : Head_(k)
    \/ \E k \in SnapKeys : Get(k)
    \/ \E k \in SnapKeys, v \in SnapValues : Post(k, v)
    \/ \E k \in SnapKeys : Delete(k)
    \/ \E p \in Paths : Backup(p)
    \/ BackupWrite
    \/ BackupDone
    \/ \E p \in Paths : Restore(p)
    \/ RestoreRead
    \/ RestoreDone
    \/ Restart

SpecSnap == Init /\ [][NextSnap]_vars

(***************************************************************************)
(* The requests the handler has no plugin operation for.  'method in       *)
(* METHOD' and 'plugin in this._plugins' hold for the names the objects    *)
(* define and for the names they inherit from Object.prototype (such as    *)
(* "constructor").                                                         *)
(***************************************************************************)
METHOD == {"HEAD", "GET", "PUT", "POST", "DELETE"}
Plugins == {"nosql", "snapshot"}
Inherited == {"constructor"}
OtherMethods == {"GET", "POST", "PATCH", "constructor"}
OtherPlugins == {"nosql", "snapshot", "other", "constructor"}
OtherParams == {"backup", "x"}

\* the handler up to the plugin operation: the asserts and the defaults
HandleOther(method, plugin, param) ==
    IF method \notin METHOD \cup Inherited THEN [code |-> 0, ex |-> TRUE]
    ELSE IF plugin \notin Plugins \cup Inherited THEN [code |-> 0, ex |-> TRUE]
    ELSE IF plugin = "snapshot" THEN [code |-> 501, ex |-> FALSE]
    ELSE IF plugin = "nosql" THEN [code |-> 501, ex |-> FALSE]
    ELSE [code |-> 0, ex |-> FALSE]

Other(method, plugin, param) ==
    /\ ~crashed /\ nops < MaxOps
    /\ ~(plugin = "nosql" /\ method \in METHOD)
    /\ ~(plugin = "snapshot" /\ method = "POST" /\ param \in {"backup", "restore"})
    /\ \E a \in {HandleOther(method, plugin, param)} :
        /\ crashed' = a.ex
        /\ res' = [plugin |-> plugin, method |-> method, key |-> <<>>, body |-> <<>>,
                   code |-> a.code, reply |-> JsUndefined, calls |-> <<>>]
    /\ nops' = nops + 1
    /\ UNCHANGED <<arena, process, files, pending, history, nrestarts, nsnaps>>

NextServe ==
    \/ \E k \in ServeKeys : Head_(k)
    \/ \E k \in ServeKeys : Get(k)
    \/ \E k \in ServeKeys, v \in ServeValues : Post(k, v)
    \/ \E k \in ServeKeys : Delete(k)
    \/ \E m \in OtherMethods, p \in OtherPlugins, x \in OtherParams : Other(m, p, x)

SpecServe == Init /\ [][NextServe]_vars

(***************************************************************************)
(* A scripted run that fills the store: POST of the keys of FillKeys in    *)
(* their order, each with a short or a long body.  A run that has made at  *)
(* most MaxDrain POSTs may go on to DELETE the keys it has posted, in any   *)
(* order.  Or the run goes on, after any POST, with GET, HEAD, DELETE and  *)
(* GET of the key just posted; script.answers are the responses to the     *)
(* last POST and to the requests of this tour.                             *)
(***************************************************************************)
\* the keys the scripted run has posted
Posted == {FillKeys[i] : i \in 1 .. script.posts}

FillPost(v) ==
    /\ ~crashed
    /\ script.phase = "fill"
    /\ script.posts < Len(FillKeys)
    /\ \E a \in {HandlePost(Cur, FillKeys[script.posts + 1], v)} :
        /\ Serve("POST", FillKeys[script.posts + 1], v, a)
        /\ script' = [script EXCEPT !.posts = @ + 1, !.sets_ok = @ /\ a.code = 200,
                                    !.answers = <<[code |-> a.code, reply |-> a.reply]>>]

DrainDelete(k) ==
    /\ ~crashed
    /\ \/ script.phase = "drain"
       \/ script.phase = "fill" /\ script.posts >= 1 /\ script.posts <= MaxDrain
    /\ k \in Posted \ script.deleted
    /\ \E a \in {HandleDelete(Cur, k)} :
        /\ Serve("DELETE", k, <<>>, a)
        /\ script' = [script EXCEPT !.phase = "drain", !.deleted = @ \cup {k}]

\* the requests that follow the POST in a tour
TourMethods == <<"GET", "HEAD", "DELETE", "GET">>

Tour ==
    /\ ~crashed
    /\ script.phase \in {"fill", "tour"}
    /\ script.posts >= 1
    /\ Len(script.answers) <= Len(TourMethods)
    /\ LET m == TourMethods[Len(script.answers)]
           k == FillKeys[script.posts]
       IN  \E a \in {IF m = "GET" THEN HandleGet(Cur, k)
                     ELSE IF m = "HEAD" THEN HandleHead(Cur, k)
                     ELSE HandleDelete(Cur, k)} :
               /\ Serve(m, k, <<>>, a)
               /\ script' = [script EXCEPT
                                !.phase = "tour",
                                !.answers = Append(@, [code |-> a.code, reply |-> a.reply])]

NextFill ==
    \/ \E v \in FillValues : FillPost(v)
    \/ \E i \in 1 .. MaxDrain : DrainDelete(FillKeys[i])
    \/ Tour

SpecFill == Init /\ [][NextFill]_vars

---------------------------------------------------------------------------
(* Requests with long values: two records of HeapKeys with the long value  *)
(* and one with the empty value fill the heap to its last byte.            *)
MaxValueLen == 28
HeapKeys == {<<97>>, <<98>>, <<99>>}
HeapValues == {<<>>, [i \in 1 .. MaxValueLen |-> 120]}

NextHeap ==
    \/ \E k \in HeapKeys, v \in HeapValues : Post(k, v)
    \/ \E k \in HeapKeys, v \in HeapValues : Put(k, v)
    \/ \E k \in HeapKeys : Delete(k)

SpecHeap == Init /\ [][NextHeap]_vars

---------------------------------------------------------------------------
(* Longer runs over two keys that share a hash once "af" has been hashed:  *)
(* replacements reuse freed blocks, and later saves walk over what is left *)
(* of them.                                                                *)
MaxReuseOps == 5
ReuseKeys == {<<97>>, <<97, 102>>}

ReuseReady == ~crashed /\ nops < MaxReuseOps /\ UNCHANGED script

ReusePut(param, body) ==
    ReuseReady /\ \E a \in {HandlePut(Cur, param, body)} : Serve("PUT", param, body, a)
ReusePost(param, body) ==
    ReuseReady /\ \E a \in {HandlePost(Cur, param, body)} : Serve("POST", param, body, a)

NextReuse ==
    \/ \E k \in ReuseKeys, v \in Values : ReusePut(k, v)
    \/ \E k \in ReuseKeys, v \in Values : ReusePost(k, v)

SpecReuse == Init /\ [][NextReuse]_vars

---------------------------------------------------------------------------
(* class BitMap on its own: a bitmap of BitMapBytes bytes, empty, with its *)
(* first byte full or full, and fetch and free called on it.  res records  *)
(* the call and what it returned.                                          *)
BitMapBytes == 2
MaxBitOps == 3
BitIds == 0 .. (8 * BitMapBytes - 1)

InitBitMap ==
    /\ bitmap \in {[i \in BitIds |-> 0],
                   [i \in BitIds |-> IF i < 8 THEN 1 ELSE 0],
                   [i \in BitIds |-> 1]}
    /\ bloom = Boot.bloom /\ heap = Boot.heap
    /\ table = Boot.table /\ nodes = Boot.nodes /\ lastOffset = Boot.lastOffset
    /\ keys = Boot.keys /\ values = Boot.values /\ mem = Boot.mem
    /\ files = [p \in Paths |-> NoImage]
    /\ pending = {}
    /\ crashed = FALSE
    /\ res = NoRes
    /\ live = NoLive
    /\ saved = [p \in Paths |-> NoLive]
    /\ script = [phase |-> "fill", posts |-> 0, sets_ok |-> TRUE, deleted |-> {},
                 answers |-> <<>>]
    /\ nops = 0 /\ nrestarts = 0 /\ nsnaps = 0

BitFetch ==
    /\ nops < MaxBitOps
    /\ \E f \in {BitMapFetch(bitmap)} :
        /\ bitmap' = f.bitmap
        /\ res' = [NoRes EXCEPT !.method = "fetch", !.code = f.out]
    /\ nops' = nops + 1
    /\ UNCHANGED <<bloom, heap, table, nodes, lastOffset, keys, values, mem, files,
                   pending, crashed, history, nrestarts, nsnaps>>

BitFree(id) ==
    /\ nops < MaxBitOps
    /\ \E f \in {BitMapFree(bitmap, id)} :
        /\ ~f.ex
        /\ bitmap' = f.bitmap
        /\ res' = [NoRes EXCEPT !.method = "free", !.code = id]
    /\ nops' = nops + 1
    /\ UNCHANGED <<bloom, heap, table, nodes, lastOffset, keys, values, mem, files,
                   pending, crashed, history, nrestarts, nsnaps>>

NextBitMap ==
    \/ BitFetch
    \/ \E id \in BitIds : BitFree(id)

SpecBitMap == InitBitMap /\ [][NextBitMap]_vars

---------------------------------------------------------------------------
(* Start-up: require('./hash').load() and the bootstrap.  The promise of   *)
(* the loader is the one record of pending; the event loop runs every      *)
(* callback that is ready, hence the weak fairness of the steps.           *)
MaxBootOps == 4
BootKeys == {<<97>>, <<110>>}
BootValues == {<<120>>}

Loader(webassembly, stage) == [op |-> "load", webassembly |-> webassembly, stage |-> stage]
Listening == \E io \in pending : io.op = "load" /\ io.stage = "listening"
Exited == crashed /\ \E io \in pending : io.op = "load" /\ io.stage = "rejected"

\* before the bootstrap's callback there is no arena, no index and no cache
InitBoot ==
    /\ bitmap = <<>> /\ bloom = <<>> /\ heap = <<>>
    /\ table = <<>> /\ nodes = <<>> /\ lastOffset = 0
    /\ keys = <<>> /\ values = <<>> /\ mem = <<>>
    /\ files = [p \in Paths |-> NoImage]
    /\ \E webassembly \in BOOLEAN : pending = {Loader(webassembly, "called")}
    /\ crashed = FALSE
    /\ res = NoRes
    /\ live = NoLive
    /\ saved = [p \in Paths |-> NoLive]
    /\ script = [phase |-> "fill", posts |-> 0, sets_ok |-> TRUE, deleted |-> {},
                 answers |-> <<>>]
    /\ nops = 0 /\ nrestarts = 0 /\ nsnaps = 0

LoaderAt(stage) == ~crashed /\ \E io \in pending : io.op = "load" /\ io.stage = stage
NoStoreYet == UNCHANGED <<arena, process, files, crashed, res, history, counters>>

\* 'WebAssembly' in global: fs.readFile of hash.wasm calls back with the
\* bytes (resolve) or with an error (reject)
LoadRead ==
    /\ LoaderAt("called") /\ Loader(TRUE, "called") \in pending
    /\ \E err \in BOOLEAN : pending' = {Loader(TRUE, IF err THEN "rejected" ELSE "read")}
    /\ NoStoreYet

\* .then(WebAssembly.compile)
LoadCompile ==
    /\ LoaderAt("read")
    /\ pending' = {Loader(TRUE, "compiled")}
    /\ NoStoreYet

\* .then(module => new WebAssembly.Instance(..)).then(instance => factory)
LoadInstance ==
    /\ LoaderAt("compiled")
    /\ pending' = {Loader(TRUE, "resolved")}
    /\ NoStoreYet

\* no WebAssembly: new Promise(() => { return factory; }); the executor takes
\* no resolve and calls none, its return value is dropped
LoadFallback ==
    /\ LoaderAt("called") /\ Loader(FALSE, "called") \in pending
    /\ pending' = {Loader(FALSE, "executed")}
    /\ NoStoreYet

\* the bootstrap's .then: Buffer.alloc, the plugins, new RestServer(..).start()
Listen ==
    /\ ~crashed
    /\ \E io \in pending :
        /\ io.op = "load" /\ io.stage = "resolved"
        /\ pending' = {[io EXCEPT !.stage = "listening"]}
    /\ Install(Boot)
    /\ UNCHANGED <<files, crashed, res, history, counters>>

\* the bootstrap's .catch: console.log(ex); process.exit()
Exit ==
    /\ ~crashed
    /\ \E io \in pending : io.op = "load" /\ io.stage = "rejected"
    /\ crashed' = TRUE
    /\ UNCHANGED <<arena, process, files, pending, res, history, counters>>

BootReady == Listening /\ ~crashed /\ nops < MaxBootOps /\ UNCHANGED script

BootPost(param, body) ==
    BootReady /\ \E a \in {HandlePost(Cur, param, body)} : Serve("POST", param, body, a)
BootGet(param) ==
    BootReady /\ \E a \in {HandleGet(Cur, param)} : Serve("GET", param, <<>>, a)
BootDelete(param) ==
    BootReady /\ \E a \in {HandleDelete(Cur, param)} : Serve("DELETE", param, <<>>, a)

NextBoot ==
    \/ LoadRead
    \/ LoadCompile
    \/ LoadInstance
    \/ LoadFallback
    \/ Listen
    \/ Exit
    \/ \E k \in BootKeys, v \in BootValues : BootPost(k, v)
    \/ \E k \in BootKeys : BootGet(k)
    \/ \E k \in BootKeys : BootDelete(k)

SpecBoot == InitBoot /\ [][NextBoot]_vars /\ WF_vars(NextBoot)

---------------------------------------------------------------------------
(* The layout of the arena: the slices the bootstrap and Index.constructor *)
(* take, for the sizes of the source and for every index size of a range.  *)
DEFAULT_TOTAL_MEMORY_SIZE == 16777215
DEFAULT_INDEX_SIZE == 65535
MaxIndexSize == 1024
IndexSizes == (0 .. MaxIndexSize) \cup {DEFAULT_INDEX_SIZE}
TotalSize(n) == IF n = DEFAULT_INDEX_SIZE THEN DEFAULT_TOTAL_MEMORY_SIZE ELSE n + HeapLen

\* Buffer.slice(start, end) of a buffer of len bytes: the offsets are cut to
\* the buffer, and an end before the start gives an empty slice
Slice(len, start, end) ==
    [start |-> Min(start, len), end |-> Max(Min(start, len), Min(end, len))]
Size(r) == r.end - r.start

\* space.slice(0, INDEX_SIZE), space.slice(INDEX_SIZE) and the four slices of
\* the index region; _table and _nodes have one element per byte of theirs
Regions(total, n) ==
    LET index == Slice(total, 0, n)
        len == Size(index)
        bm == BitmapLength(len)
        bl == BloomLength(len)
        ht == HtableLength(len)
        tbl == Slice(len, bm + bl, bm + bl + ht)
        nds == Slice(len, bm + bl + ht, len)
    IN  [index |-> index, heap |-> Slice(total, n, total),
         bitmap |-> Slice(len, 0, bm), bloom |-> Slice(len, bm, bm + bl),
         table |-> tbl, nodes |-> nds,
         slots |-> 8 * bm, table_length |-> Size(tbl), nodes_length |-> Size(nds)]

Layout(n) ==
    /\ res = NoRes
    /\ res' = [NoRes EXCEPT !.method = "layout", !.code = n,
                            !.calls = <<Regions(TotalSize(n), n)>>]
    /\ UNCHANGED <<arena, process, files, pending, crashed, history, counters>>

NextLayout == \E n \in IndexSizes : Layout(n)

SpecLayout == Init /\ [][NextLayout]_vars

---------------------------------------------------------------------------
(* The properties checked *)

\* what has(key) and get(key) answer in the current state
HasNow(k) == NoSqlHas(Cur, k)
GetNow(k) == NoSqlGet(Cur, k)

\* C1: every key whose last set returned true and that was not deleted since
\* is found: has(key) returns true and get(key) returns the value last set
C1_LiveKeysAreFound ==
    ~crashed =>
        \A k \in AllKeys :
            live[k] # JsUndefined =>
                /\ ~HasNow(k).ex /\ HasNow(k).out = JsTrue
                /\ ~GetNow(k).ex /\ GetNow(k).out = live[k]
\* a request has just been served and answered
Served == nops' = nops + 1 /\ ~crashed'

\* what get(key) gives: its value, or that it threw
GetView(s, k) == [out |-> NoSqlGet(s, k).out, ex |-> NoSqlGet(s, k).ex]

\* C2: a request for one key never changes what get gives for another key
C2_OtherKeysUntouched ==
    [][Served => \A k2 \in Keys \ {res'.key} : GetView(Cur', k2) = GetView(Cur, k2)]_vars

\* what has(key) gives: its value, or that it threw
HasView(s, k) == [out |-> NoSqlHas(s, k).out, ex |-> NoSqlHas(s, k).ex]

\* the key was set, not deleted since, and has(key) finds it
Present(k) == live[k] # JsUndefined /\ HasView(Cur, k) = [out |-> JsTrue, ex |-> FALSE]

\* C3: a delete of a present key leaves has(key) false and get(key) absent,
\* and a set(key, v) that follows it makes get(key) return v
C3_DeleteThenSet ==
    [][/\ (nops' = nops + 1 /\ res'.method = "DELETE" /\ Present(res'.key)) =>
            /\ ~crashed'
            /\ HasView(Cur', res'.key) = [out |-> JsFalse, ex |-> FALSE]
            /\ GetView(Cur', res'.key) = [out |-> JsUndefined, ex |-> FALSE]
       /\ (nops' = nops + 1 /\ res'.method = "POST" /\ res.method = "DELETE"
              /\ res.key = res'.key /\ res.code = 200) =>
            /\ res'.code = 200
            /\ GetView(Cur', res'.key) = [out |-> Str(res'.body), ex |-> FALSE]
      ]_vars

\* a node of the index holds the key: its slot is taken and its id is the
\* offset of a block with this key
KeyInIndex(k) ==
    \E i \in Slots :
        /\ bitmap[i] = 1
        /\ StorageGetKey(heap, nodes[getNodeBlockOffset(i) + 1]) = [out |-> Str(k), ex |-> FALSE]

\* what delete(key) gives: its value, or that it threw
DeleteView(s, k) == [out |-> NoSqlDelete(s, k).out, ex |-> NoSqlDelete(s, k).ex]

\* C4: for a key that is not in the index (and not in the cache) has returns
\* false, get returns nothing and delete returns false, and none of them raises
C4_AbsentKeysAnswerQuietly ==
    ~crashed =>
        \A k \in Keys :
            (~KeyInIndex(k) /\ ~CacheHas(Cur, k)) =>
                /\ HasView(Cur, k) = [out |-> JsFalse, ex |-> FALSE]
                /\ GetView(Cur, k) = [out |-> JsUndefined, ex |-> FALSE]
                /\ DeleteView(Cur, k) = [out |-> JsFalse, ex |-> FALSE]

\* the bytes of a JavaScript string
Bytes(v) == {v.b[i] : i \in DOMAIN v.b}

\* C8: a value that contains the byte 0x00 comes back whole from get, from
\* the cache and from the heap, for every key that is stored and found
C8_NullByteValuesWhole ==
    ~crashed =>
        \A k \in AllKeys :
            (live[k] # JsUndefined /\ 0 \in Bytes(live[k])
                /\ HasView(Cur, k) = [out |-> JsTrue, ex |-> FALSE]) =>
                    GetView(Cur, k) = [out |-> live[k], ex |-> FALSE]

\* the blocks of the heap, from offset 0 on: the offsets of their headers
RECURSIVE BlocksFrom(_, _)
BlocksFrom(h, offset) ==
    IF offset + 5 > HeapLen THEN {}
    ELSE LET size == ReadUInt32BE(h, offset + 1)
         IN  {offset} \cup (IF size <= 0 THEN {} ELSE BlocksFrom(h, NextOffset(offset, size)))

Blocks(h) == BlocksFrom(h, 0)
BusyBlocks(h) == {o \in Blocks(h) : h[o] = BUSY}

\* a FREE block of the heap can hold the data
Fits(h, data) == \E o \in Blocks(h) : h[o] = FREE /\ ReadUInt32BE(h, o + 1) >= Len(data)

\* C5: a set when no FREE block can hold key, 0x00, value returns false
\* without raising, and leaves the index chains and the bitmap as they were
C5_HeapFullSetReturnsFalse ==
    [][(nops' = nops + 1 /\ res'.method = "POST"
            /\ ~Fits(heap, Data(res'.key, res'.body))) =>
            /\ ~crashed'
            /\ res'.code = 500
            /\ table' = table /\ nodes' = nodes /\ bitmap' = bitmap
      ]_vars

\* C6: a set when every slot of the bitmap is busy returns false and changes
\* nothing: no chain, no node, no bloom bit, and no block becomes BUSY
C6_IndexFullSetReturnsFalse ==
    [][(nops' = nops + 1 /\ res'.method = "POST" /\ \A i \in Slots : bitmap[i] = 1) =>
            /\ ~crashed'
            /\ res'.code = 500
            /\ table' = table /\ nodes' = nodes /\ bitmap' = bitmap
            /\ bloom' = bloom
            /\ BusyBlocks(heap') = BusyBlocks(heap)
      ]_vars

\* C7: after sets of distinct keys that all returned true, every delete of
\* one of these keys returns true, and when all of them are deleted every
\* bit of the bitmap is zero and every block of the heap is FREE
C7_BalancedRunLeavesNothing ==
    (script.phase = "drain" /\ script.sets_ok) =>
        /\ ~crashed
        /\ res.code = 200
        /\ script.deleted = Posted =>
              /\ \A i \in Slots : bitmap[i] = 0
              /\ BusyBlocks(heap) = {}

\* the load has just answered 200
Loaded == ~crashed /\ res.method = "RESTORE" /\ res.code = 200

\* the state of a process that has just started: the table, the nodes, the
\* cache, the save cursor and the hash memory of the bootstrap
Fresh ==
    /\ table = Boot.table /\ nodes = Boot.nodes /\ lastOffset = Boot.lastOffset
    /\ keys = Boot.keys /\ values = Boot.values /\ mem = Boot.mem

\* C9: after save, a fresh process state and load, every key that was stored
\* when the file was written is found by has and by get with its value
C9_SnapshotRoundTrip ==
    (Loaded /\ Fresh) =>
        \A k \in AllKeys :
            live[k] # JsUndefined =>
                /\ HasView(Cur, k) = [out |-> JsTrue, ex |-> FALSE]
                /\ GetView(Cur, k) = [out |-> live[k], ex |-> FALSE]

\* a fresh process on the bytes of the arena
Reloaded == [Boot EXCEPT !.bitmap = bitmap, !.bloom = bloom, !.heap = heap]

\* what set(key, value) gives: its value, or that it threw
SetView(s, k, v) == [out |-> NoSqlSet(s, k, v).out, ex |-> NoSqlSet(s, k, v).ex]

\* C10: after a successful load every has, get, set and delete gives what a
\* fresh process on the loaded bytes gives
C10_LoadIsRestart ==
    Loaded =>
        \A k \in SnapKeys :
            /\ HasView(Cur, k) = HasView(Reloaded, k)
            /\ GetView(Cur, k) = GetView(Reloaded, k)
            /\ DeleteView(Cur, k) = DeleteView(Reloaded, k)
            /\ \A v \in SnapValues : SetView(Cur, k, v) = SetView(Reloaded, k, v)

\* C11: for a key absent from the store, POST, GET, HEAD, DELETE, GET of the
\* key are answered 200, 200 with the posted body, 200, 200, 404
TourCodes == <<200, 200, 200, 200, 404>>

C11_TourOfOneKey ==
    script.phase = "tour" =>
        /\ \A i \in 1 .. Len(script.answers) : script.answers[i].code = TourCodes[i]
        /\ live[FillKeys[script.posts]] # JsUndefined =>
               script.answers[2].reply = live[FillKeys[script.posts]]

\* C12: a POST of a key that is already stored is answered 200, and a GET
\* that follows it is answered 200 with the body of this POST
C12_DuplicatePostAnswers200 ==
    [][(nops' = nops + 1 /\ res'.method = "POST" /\ Present(res'.key)) =>
            /\ res'.code = 200
            /\ HandleGet(Cur', res'.key).code = 200
            /\ HandleGet(Cur', res'.key).reply = Str(res'.body)
      ]_vars

\* the BUSY blocks of the heap whose key is k
BusyBlocksOf(h, k) ==
    {o \in BusyBlocks(h) : StorageGetKey(h, o) = [out |-> Str(k), ex |-> FALSE]}

\* C13: after two PUTs of one key in a row, both answered 200, GET answers
\* 200 with the second body and the heap has exactly one BUSY block of the key
C13_PutReplaces ==
    [][(nops' = nops + 1 /\ res'.method = "PUT" /\ res'.code = 200
            /\ res.method = "PUT" /\ res.key = res'.key /\ res.code = 200) =>
            /\ HandleGet(Cur', res'.key).code = 200
            /\ HandleGet(Cur', res'.key).reply = Str(res'.body)
            /\ Cardinality(BusyBlocksOf(heap', res'.key)) = 1
      ]_vars

\* C14: a request with a method outside HEAD, GET, PUT, POST, DELETE or
\* with a plugin that is not registered is answered 501
C14_UnknownRequestsGet501 ==
    [][(nops' = nops + 1 /\ (res'.method \notin METHOD \cup {"BACKUP", "RESTORE"}
                              \/ res'.plugin \notin Plugins)) =>
            (~crashed' /\ res'.code = 501)
      ]_vars

\* C15: a set of a new key with the empty value returns true and get then
\* returns the empty value, from the cache and from the block on the heap;
\* a request with the empty key is rejected by the assert and changes nothing
C15_EmptyValueEmptyKey ==
    [][(nops' = nops + 1 /\ res'.plugin = "nosql" /\ res'.method \in METHOD) =>
            /\ res'.key = <<>> =>
                  (crashed' /\ arena' = arena /\ process' = process)
            /\ (res'.method = "POST" /\ res'.key # <<>> /\ res'.body = <<>>
                  /\ ~KeyInIndex(res'.key)) =>
                  /\ res'.code = 200
                  /\ GetView(Cur', res'.key) = [out |-> Str(<<>>), ex |-> FALSE]
                  /\ StorageGetValue(heap', lastOffset') = [out |-> Str(<<>>), ex |-> FALSE]
      ]_vars

\* the request just served has called set
SetCalled(r) == \E i \in DOMAIN r.calls : r.calls[i].f = "set"

\* C16: get(k) called directly after set(k, v), for a non-empty key k,
\* returns v (whatever set returned, and also when set threw)
C16_GetAfterSet ==
    [][(nops' = nops + 1 /\ res'.key # <<>> /\ SetCalled(res')) =>
            GetView(Cur', res'.key) = [out |-> Str(res'.body), ex |-> FALSE]
      ]_vars

\* a set of a value with a 0x00 byte has returned false (a duplicate insert)
\* and get returns the value
C16_Witness ==
    /\ ~crashed /\ res.method = "POST" /\ res.code = 500
    /\ res.body = <<121, 0, 122>>
    /\ GetNow(res.key).out = Str(res.body)

\* the slots of the nodes along the links from curr_offset, in order; the
\* walk stops at EOC and after more nodes than there are slots (a cycle)
RECURSIVE ChainFrom(_, _, _)
ChainFrom(s, curr_offset, n) ==
    IF curr_offset \notin Slots \/ n > Cardinality(Slots) THEN <<>>
    ELSE <<curr_offset>> \o ChainFrom(s, Node(s, curr_offset).next, n + 1)

\* the chain of bucket b
Chain(s, b) == ChainFrom(s, s.table[b], 0)
Reachable(s, b) == {Chain(s, b)[i] : i \in DOMAIN Chain(s, b)}

\* the first node of the chain of bucket b whose hash is below hash, or EOC
FirstBelow(s, b, hash) ==
    LET c == Chain(s, b)
        below == {i \in DOMAIN c : UGt(hash, Node(s, c[i]).hash)}
    IN  IF below = {} THEN EOC
        ELSE c[CHOOSE i \in below : \A j \in below : i <= j]

\* the POST just served took slot f for a new node, and the chain of the
\* node's bucket had a node with a smaller hash
InsertedAbove(f) ==
    /\ nops' = nops + 1 /\ res'.method = "POST"
    /\ bitmap[f] = 0 /\ bitmap'[f] = 1
    /\ FirstBelow(Cur, UMod(Node(Cur', f).hash, htable_length), Node(Cur', f).hash) # EOC

\* C17: a node inserted above a node with a smaller hash points at that node
\* and every node reachable in the bucket before the insert is reachable after
C17_InsertBeforeKeepsChain ==
    [][\A f \in Slots :
           InsertedAbove(f) =>
               LET hash == Node(Cur', f).hash
                   b == UMod(hash, htable_length)
               IN  /\ Node(Cur', f).next = FirstBelow(Cur, b, hash)
                   /\ Reachable(Cur, b) \subseteq Reachable(Cur', b)
      ]_vars

Buckets == 0 .. (htable_length - 1)

\* the walk from the head of bucket b ends at EOC: no cycle, no link that is
\* not a slot
Terminates(s, b) ==
    LET c == Chain(s, b)
    IN  /\ Len(c) <= Cardinality(Slots)
        /\ IF c = <<>> THEN s.table[b] = EOC ELSE Node(s, c[Len(c)]).next = EOC

\* the hashes along the chain of bucket b are strictly descending
Descending(s, b) ==
    LET c == Chain(s, b)
    IN  \A i \in 1 .. (Len(c) - 1) : UGt(Node(s, c[i]).hash, Node(s, c[i + 1]).hash)

\* C18: in every state the chain of every bucket ends at EOC and its hashes
\* are strictly descending
C18_ChainsDescend == \A b \in Buckets : Terminates(Cur, b) /\ Descending(Cur, b)

\* the slots whose bit is set in the bitmap
BusySlots(s) == {i \in Slots : s.bitmap[i] = 1}

\* the buckets whose chain reaches slot i
BucketsOf(s, i) == {b \in Buckets : i \in Reachable(s, b)}

\* C19: in every state the busy slots of the bitmap are the slots of the
\* nodes reachable from the bucket heads, each from exactly one bucket
C19_BusySlotsAreChainNodes ==
    /\ BusySlots(Cur) = UNION {Reachable(Cur, b) : b \in Buckets}
    /\ \A i \in BusySlots(Cur) : Cardinality(BucketsOf(Cur, i)) = 1

\* The walk over the heap from offset: read (flag, size), advance by size + 5.
\* genuine: every header visited lies within the heap and has flag FREE or
\* BUSY; end: the offset the walk stops at, the first one not below the end
\* of the heap (a size above the heap's length counts as the length: the walk
\* is past the end either way).
RECURSIVE HeapWalk(_, _)
HeapWalk(h, offset) ==
    IF offset >= HeapLen THEN [genuine |-> TRUE, end |-> offset]
    ELSE IF offset + 5 > HeapLen \/ h[offset] \notin {FREE, BUSY}
    THEN [genuine |-> FALSE, end |-> offset]
    ELSE Bind(ReadUInt32BE(h, offset + 1), LAMBDA size :
             IF size <= 0 THEN [genuine |-> FALSE, end |-> offset]
             ELSE HeapWalk(h, offset + Min(size, HeapLen) + 5))

\* C20: in every state the walk over the heap from offset 0 visits only
\* headers with flag FREE or BUSY and ends exactly at the end of the heap
C20_HeapWalkEndsAtHeapEnd ==
    HeapWalk(heap, 0) = [genuine |-> TRUE, end |-> HeapLen]

\* a FREE block of the heap can hold the data within the heap
FreeFit(h, data) ==
    \E o \in Blocks(h) :
        /\ h[o] = FREE /\ ReadUInt32BE(h, o + 1) >= Len(data)
        /\ o + 5 + Len(data) <= HeapLen

\* what Storage.save gives in state s: the offset, or that it threw
SaveView(s, key, value) ==
    [out |-> StorageSave(s, key, value).out, ex |-> StorageSave(s, key, value).ex]

\* C21: whenever the walk over the heap sees only FREE and BUSY headers and
\* some FREE block can hold key, 0x00, value, Storage.save returns an offset,
\* wherever the cursor points
C21_SaveFindsAnyFreeBlock ==
    \A k \in HeapKeys, v \in HeapValues :
        (HeapWalk(heap, 0).genuine /\ FreeFit(heap, Data(k, v))) =>
            (~SaveView(Cur, k, v).ex /\ SaveView(Cur, k, v).out \in 0 .. (HeapLen - 1))

\* the offsets of the records the index refers to that are BUSY on the heap
BusyRecords(s) ==
    {o \in {Node(s, i).id : i \in BusySlots(s)} :
        o \in 0 .. (HeapLen - 5) /\ s.heap[o] = BUSY}

\* the offsets of the header and the payload of the record at offset o
RecordBytes(h, o) ==
    {i \in 0 .. (HeapLen - 1) : i >= o /\ i - o < 5 + ReadUInt32BE(h, o + 1)}

\* the block at offset o of heap h is BUSY and holds exactly data
HoldsExactly(h, o, data) ==
    /\ o \in 0 .. (HeapLen - 5)
    /\ h[o] = BUSY
    /\ ReadUInt32BE(h, o + 1) = Len(data)
    /\ o + 5 + Len(data) <= HeapLen
    /\ \A i \in DOMAIN data : h[o + 5 + i - 1] = data[i]

\* C22: a Storage.save that returns leaves every byte of every BUSY record
\* as it was, and the record at the returned offset holds exactly
\* key, 0x00, value
C22_SaveKeepsBusyRecords ==
    \A k \in Keys, v \in Values :
        LET r == StorageSave(Cur, k, v)
        IN  ~r.ex =>
                /\ \A o \in BusyRecords(Cur) :
                       \A i \in RecordBytes(heap, o) : r.s.heap[i] = heap[i]
                /\ HoldsExactly(r.s.heap, r.out, Data(k, v))

\* a node reachable from a bucket head refers to a record with key k
KeyReachable(s, k) ==
    \E b \in Buckets : \E i \in Reachable(s, b) :
        StorageGetKey(s.heap, Node(s, i).id) = [out |-> Str(k), ex |-> FALSE]

\* C23: in every state bloom.has(key) is true for every key in the index
C23_BloomHasLiveKeys ==
    \A k \in Keys : KeyReachable(Cur, k) => BloomHas(bloom, mem, k)

\* the cells of the cache that hold a pair
CacheCells(s) == {c \in DOMAIN s.keys : s.keys[c] # JsNull}

\* a node reachable from a bucket head refers to a BUSY record that holds
\* exactly key, 0x00, value
InIndexWith(s, key, value) ==
    \E b \in Buckets : \E i \in Reachable(s, b) :
        HoldsExactly(s.heap, Node(s, i).id, Data(key, value))

\* C24: in every state every pair in the cache is in the index, with a BUSY
\* record of that key and that value
C24_CacheIsWriteThrough ==
    \A c \in CacheCells(Cur) : InIndexWith(Cur, keys[c].b, values[c].b)

\* the seeds the program makes hash functions for
AllSeeds == {INDEX_SEED, CACHE_SEED} \cup {SEEDS[n] : n \in DOMAIN SEEDS}

\* the strings handed to the hash functions, and the empty string
HashInputs == Keys \cup {<<>>}

\* C25: for every seed the hash of a string is the same in every state: it
\* is what the first call of the instance returns for the string
C25_HashIsStateless ==
    \A seed \in AllSeeds : \A str \in HashInputs :
        Hash(mem, seed, str) = Hash(<<>>, seed, str)

\* h := seed; for each byte b of str: h := (31 * h + b) mod 2^32
RECURSIVE Hash31(_, _)
Hash31(h, str) == IF str = <<>> THEN h ELSE Hash31(Step31(h, Head(str) % 256), Tail(str))

\* C26: for every seed and every string the hash is the polynomial hash of
\* the string's bytes, and the seed for the empty string
C26_HashIsPolynomial ==
    \A seed \in AllSeeds : \A str \in HashInputs :
        /\ Hash(mem, seed, str) = Hash31(seed, str)
        /\ str = <<>> => Hash(mem, seed, str) = seed

\* key is in the index as Index.set sees it: a node reachable in the bucket
\* of the key's hash has that hash and check(id) is true for it
InIndex(s, key) ==
    LET hash == Hash(s.mem, INDEX_SEED, key)
    IN  \E i \in Reachable(s, UMod(hash, htable_length)) :
            /\ Node(s, i).hash = hash
            /\ Check(s.heap, Node(s, i).id, key) = [ok |-> TRUE, ex |-> FALSE]

\* Index.set(id, key) in state s returns false and leaves the bucket heads,
\* the nodes, the bitmap and the bloom filter as they were
SetRejected(s, id, key) ==
    LET r == IndexSet(s, id, key)
    IN  /\ ~r.ex /\ r.out = FALSE
        /\ r.s.table = s.table /\ r.s.nodes = s.nodes
        /\ r.s.bitmap = s.bitmap /\ r.s.bloom = s.bloom

\* the state in which NoSql.set(key, value) calls Index.set, and the id it
\* passes: after cache.set and storage.save
BeforeIndexSet(s, key, value) == StorageSave(CacheSet(s, key, Str(value)), key, value)

\* C27: Index.set for a key that is in the index returns false and leaves
\* the bucket heads, the nodes, the bitmap and the bloom filter as they were,
\* when called on its own and when called by NoSql.set after the save
C27_DuplicateSetChangesNothing ==
    ~crashed =>
        \A k \in ReuseKeys :
            /\ InIndex(Cur, k) => SetRejected(Cur, lastOffset, k)
            /\ \A v \in Values :
                   LET sv == BeforeIndexSet(Cur, k, v)
                   IN  (~sv.ex /\ InIndex(sv.s, k)) => SetRejected(sv.s, sv.out, k)

\* the first node of the chain of the key's bucket that has the key's hash
\* and for which check(id) is true (for a key that is in the index)
NodeOf(s, key) ==
    LET hash == Hash(s.mem, INDEX_SEED, key)
        c == Chain(s, UMod(hash, htable_length))
        hits == {j \in DOMAIN c :
                    /\ Node(s, c[j]).hash = hash
                    /\ Check(s.heap, Node(s, c[j]).id, key) = [ok |-> TRUE, ex |-> FALSE]}
    IN  c[CHOOSE j \in hits : \A j2 \in hits : j <= j2]

\* the sequence without the elements equal to x
Without(seq, x) == SelectSeq(seq, LAMBDA y : y # x)

\* C28: Index.delete of a key it finds returns the record reference of the
\* key's node, takes the node out of its chain, clears its slot bit and keeps
\* the other nodes of the chain in their order; for a key it does not find
\* it returns -1 and leaves the index as it was
C28_DeleteSplicesOneNode ==
    \A k \in AllKeys \ {<<>>} :
        LET r == IndexDelete(Cur, k)
            b == UMod(Hash(mem, INDEX_SEED, k), htable_length)
        IN  /\ ~r.ex
            /\ (BloomHas(bloom, mem, k) /\ InIndex(Cur, k)) =>
                   /\ r.out = Node(Cur, NodeOf(Cur, k)).id
                   /\ NodeOf(Cur, k) \notin Reachable(r.s, b)
                   /\ r.s.bitmap[NodeOf(Cur, k)] = 0
                   /\ Chain(r.s, b) = Without(Chain(Cur, b), NodeOf(Cur, k))
            /\ ~(BloomHas(bloom, mem, k) /\ InIndex(Cur, k)) =>
                   /\ r.out = -1
                   /\ r.s.table = table /\ r.s.nodes = nodes
                   /\ r.s.bitmap = bitmap /\ r.s.bloom = bloom

\* the nodes reachable from the bucket heads
ReachableNodes(s) == UNION {Reachable(s, b) : b \in Buckets}

\* the node in slot i, reachable from bucket b, refers to a BUSY record
\* whose key has the node's hash, and the hash falls into bucket b
NodeMatchesRecord(s, b, i) ==
    LET id == Node(s, i).id
        key == StorageGetKey(s.heap, id)
    IN  /\ id \in 0 .. (HeapLen - 5)
        /\ s.heap[id] = BUSY
        /\ ~key.ex /\ key.out.t = "str"
        /\ Hash31(INDEX_SEED, key.out.b) = Node(s, i).hash
        /\ UMod(Node(s, i).hash, htable_length) = b

\* C29: in every state every reachable node refers to a BUSY record whose
\* key hashes to the node's hash and bucket, and no two reachable nodes refer
\* to the same record
C29_NodesReferToTheirRecords ==
    /\ \A b \in Buckets : \A i \in Reachable(Cur, b) : NodeMatchesRecord(Cur, b, i)
    /\ \A i, j \in ReachableNodes(Cur) : Node(Cur, i).id = Node(Cur, j).id => i = j

\* C30: a PUT of a key that is stored, served while a FREE block can hold
\* the record and a slot is free, is answered 200 and get then returns the body
C30_PutOfStoredKeyReplaces ==
    [][(/\ nops' = nops + 1 /\ res'.method = "PUT"
        /\ Present(res'.key)
        /\ FreeFit(heap, Data(res'.key, res'.body))
        /\ BusySlots(Cur) # Slots) =>
            /\ ~crashed'
            /\ res'.code = 200
            /\ GetView(Cur', res'.key) = [out |-> Str(res'.body), ex |-> FALSE]
      ]_vars

\* the ids whose bit is clear in bitmap bm
FreeIds(bm) == {i \in DOMAIN bm : bm[i] = 0}

\* C31: fetch returns the smallest id whose bit is clear and sets that bit
\* only; it returns -1 and changes nothing iff every bit is set; after
\* free(s) of the smallest free id the next fetch returns s
C31_FetchIsLowestFirst ==
    LET f == BitMapFetch(bitmap)
    IN  /\ FreeIds(bitmap) # {} =>
               /\ f.out \in FreeIds(bitmap)
               /\ \A j \in FreeIds(bitmap) : f.out <= j
               /\ f.bitmap = [bitmap EXCEPT ![f.out] = 1]
        /\ (f.out = -1) = (FreeIds(bitmap) = {})
        /\ f.out = -1 => f.bitmap = bitmap
        /\ \A s \in DOMAIN bitmap :
               LET fr == BitMapFree(bitmap, s)
               IN  /\ ~fr.ex
                   /\ fr.bitmap = [bitmap EXCEPT ![s] = 0]
                   /\ (\A j \in FreeIds(fr.bitmap) : s <= j) => BitMapFetch(fr.bitmap).out = s

\* free(9) has cleared a bit of the second byte while the first byte is
\* full, and the next fetch returns 9
C31_Witness ==
    /\ res.method = "free" /\ res.code = 9
    /\ \A j \in 0 .. 8 : bitmap[j] = 1
    /\ bitmap[9] = 0
    /\ BitMapFetch(bitmap).out = 9

\* the bit positions h(key) mod (8 * bloom_length) of the five hash functions
BitPositions(m, key) ==
    {UMod(Hash(m, SEEDS[n], key), 8 * bloom_length) : n \in DOMAIN SEEDS}

\* C32: add(key) sets the bits at h(key) mod (8 * bloom_length), has(key) is
\* true iff those bits are set, and remove(key) clears them
C32_BloomUsesEveryBit ==
    \A k \in Keys :
        /\ BloomAdd(bloom, mem, k) =
               [i \in DOMAIN bloom |-> IF i \in BitPositions(mem, k) THEN 1 ELSE bloom[i]]
        /\ BloomHas(bloom, mem, k) = (\A i \in BitPositions(mem, k) : bloom[i] = 1)
        /\ BloomRemove(bloom, mem, k) =
               [i \in DOMAIN bloom |-> IF i \in BitPositions(mem, k) THEN 0 ELSE bloom[i]]

\* C33: the table and the nodes are stored in the arena's bytes, so the arena
\* alone determines the index: an arena equal to the freshly cleared one
\* comes with the freshly cleared table and nodes
C33_ArenaDeterminesIndex ==
    Image(Cur) = Image(Boot) => table = Boot.table /\ nodes = Boot.nodes

\* C34: the facade's delete(key) returns true iff Index.delete returned a
\* record reference and Storage.delete of it returned true; Storage.delete of
\* a BUSY record changes only its flag byte, to FREE, keeps the length word
\* and returns true; a second Storage.delete of the offset returns false and
\* changes nothing
C34_DeleteFreesTheFlagOnce ==
    /\ \A k \in Keys :
           LET r == IndexDelete(CacheRemove(Cur, k), k)
               d == NoSqlDelete(Cur, k)
           IN  ~d.ex => ((d.out = JsTrue) =
                             (~r.ex /\ r.out # -1 /\ StorageDelete(r.s, r.out).out))
    /\ \A o \in 0 .. (HeapLen - 5) :
           heap[o] = BUSY =>
               LET d == StorageDelete(Cur, o)
                   e == StorageDelete(d.s, o)
               IN  /\ d.out /\ ~d.ex
                   /\ d.s.heap = [heap EXCEPT ![o] = FREE]
                   /\ ReadUInt32BE(d.s.heap, o + 1) = ReadUInt32BE(heap, o + 1)
                   /\ ~e.out /\ ~e.ex /\ e.s = d.s

\* DELETE of the stored key "a" was answered 200: its record at offset 0 is
\* FREE with its length word kept, and a second delete of it returns false
C34_Witness ==
    /\ ~crashed /\ res.method = "DELETE" /\ res.code = 200 /\ res.key = <<97>>
    /\ heap[0] = FREE /\ ReadUInt32BE(heap, 1) = 3
    /\ ~StorageDelete(Cur, 0).out
    /\ \E o \in 1 .. (HeapLen - 5) : heap[o] = BUSY

\* the handler accepted the request of this step: one of the five methods,
\* and a plugin name that passes the test "plugin in this._plugins"
Accepted == nops' = nops + 1 /\ res'.method \in METHOD /\ res'.plugin \in Plugins \cup Inherited

\* C35: every accepted request gets a response: when the handler of an
\* accepted request returns without throwing, done(code) has been called
C35_AcceptedRequestsAreAnswered ==
    [][(Accepted /\ ~crashed') => res'.code # 0]_vars

\* the snapshot operation that this step answers
Answering(io) == io \in pending /\ io \notin pending' /\ io.stage = "done" /\ nrestarts' = nrestarts

\* C36: a backup or a restore is answered 200 only after its file operation
\* is done without an error (for a restore: and the arena holds the bytes
\* read); after a failed file operation the answer is 500 with the text of
\* the error and the arena is as it was
C36_SnapshotAnswersAfterTheFile ==
    [][\A io \in pending : Answering(io) =>
          /\ res'.plugin = "snapshot" /\ res'.code \in {200, 500}
          /\ res'.code = 200 =>
                 /\ ~io.err
                 /\ io.op = "backup" => files[io.path] # NoImage /\ Image(Cur') = Image(Cur)
                 /\ io.op = "restore" => io.space # NoImage /\ Image(Cur') = io.space
          /\ res'.code = 500 =>
                 /\ io.err /\ res'.reply = Str(ErrorText)
                 /\ Image(Cur') = Image(Cur)
          /\ io.err => res'.code = 500
      ]_vars

\* a restore of a written file was answered 200 over a store that had changed
\* since the backup: the arena holds the file's bytes
C36_Witness ==
    /\ ~crashed /\ res.method = "RESTORE" /\ res.code = 200
    /\ Image(Cur) = files["/tmp/s.bin"] /\ Image(Cur) = Image(Boot)
    /\ table # Boot.table

\* C37: the arena changes only by one whole facade request, during which no
\* snapshot operation moves, or by the whole copy of the bytes read, during
\* which no request runs (or by a restart); so no facade operation sees an
\* arena that is loaded in part
C37_CopyAndRequestsAreWholeSteps ==
    [][Image(Cur') # Image(Cur) =>
          \/ nops' = nops + 1 /\ pending' = pending /\ nrestarts' = nrestarts
          \/ /\ nops' = nops /\ process' = process
             /\ \E io \in pending :
                    Answering(io) /\ io.op = "restore" /\ ~io.err /\ Image(Cur') = io.space
          \/ nrestarts' = nrestarts + 1 /\ Image(Cur') = Image(Boot)
      ]_vars

\* a request was served between the read of a restore and its copy: the
\* bytes read wait in the callback and the arena holds none of them yet
C37_Witness ==
    /\ ~crashed /\ res.plugin = "nosql" /\ res.method = "POST" /\ res.code = 200
    /\ \E io \in pending :
           /\ io.op = "restore" /\ io.stage = "done" /\ ~io.err
           /\ io.space.heap # heap /\ io.space.bitmap # bitmap

\* C38: start-up terminates: with and without WebAssembly the promise of
\* load() is settled in the end, so the server listens (or, when hash.wasm
\* cannot be read, the bootstrap's catch ends the process)
C38_StartUpTerminates == <>(Listening \/ Exited)

Disjoint(r1, r2) == r1.end <= r2.start \/ r2.end <= r1.start
Inside(r, outer) == outer.start <= r.start /\ r.end <= outer.end

\* C39: the bitmap, bloom, table and node slices are pairwise disjoint, inside
\* the index region and disjoint from the heap; every slot id the bitmap can
\* hand out has its triple inside the node array and is below the length of
\* the table, the bound that Index.get asserts
C39_LayoutIsSound ==
    res.method = "layout" =>
        LET r == res.calls[1]
            parts == <<r.bitmap, r.bloom, r.table, r.nodes>>
        IN  /\ \A i, j \in 1 .. 4 : i < j => Disjoint(parts[i], parts[j])
            /\ \A i \in 1 .. 4 : Inside(parts[i], r.index) /\ Disjoint(parts[i], r.heap)
            /\ Disjoint(r.index, r.heap)
            /\ \A slot \in 0 .. (r.slots - 1) :
                   /\ getNodeBlockOffset(slot) >= 0
                   /\ getNodeBlockOffset(slot) + 2 < r.nodes_length
                   /\ slot < r.table_length

\* the layout of the source's sizes: 191 bitmap bytes (1528 slots), 255 bloom
\* bytes, a table of 1603 elements and a node array of 63486
C39_Witness ==
    /\ res.method = "layout" /\ res.code = DEFAULT_INDEX_SIZE
    /\ res.calls[1].slots = 1528 /\ res.calls[1].table_length = 1603
    /\ res.calls[1].nodes_length = 63486
    /\ res.calls[1].bloom = [start |-> 191, end |-> 446]
    /\ res.calls[1].heap = [start |-> 65535, end |-> 16777215]


============================================================================
